---- MODULE Spec2Model ----
(***************************************************************************)
(* Story-session state machine of src/bot.py (StoryBot).                   *)
(*                                                                         *)
(* State: the per-user dictionary context.user_data, the per-user state    *)
(* of the character-creation ConversationHandler, and a record describing  *)
(* the update handled last (what was submitted, what the generation call   *)
(* did, how the handler ended).  One action per handler registered in      *)
(* main(); each action is the whole handler.  The application handles one  *)
(* update at a time; the specification SpecLoop follows a handler through   *)
(* its awaits and its generation call, with the updates fetched and not    *)
(* yet handled (queue) and the handler the event loop is in (running).     *)
(***************************************************************************)
EXTENDS Integers, Sequences, FiniteSets, TLC

VARIABLES user_data, conv, last, path, queue, running

vars == <<user_data, conv, last, path, queue, running>>

(***************************************************************************)
(* Bounds of the model.                                                    *)
(***************************************************************************)
\* story_history is never grown beyond MaxHist turns
MaxHist == 4
\* number of space characters used to pad the padded text inputs
PadLen == 1
\* the most blocks (a first line and the lines below it) of a generated
\* template text
MaxBlocks == 4
\* the most updates fetched and not yet handled
MaxQueue == 2

(***************************************************************************)
(* Text: a string is a sequence of one-character strings.                  *)
(***************************************************************************)
Rep(c, n) == [i \in 1..n |-> c]

Whitespace == {" ", "\n"}

RECURSIVE lstrip(_)
lstrip(s) == IF s # <<>> /\ Head(s) \in Whitespace THEN lstrip(Tail(s)) ELSE s

RECURSIVE rstrip(_)
rstrip(s) ==
    IF s # <<>> /\ s[Len(s)] \in Whitespace THEN rstrip(SubSeq(s, 1, Len(s) - 1)) ELSE s

\* str.strip()
strip(s) == rstrip(lstrip(s))

Pad(s) == Rep(" ", PadLen) \o s \o Rep(" ", PadLen)

(***************************************************************************)
(* context.user_data[u] is a Python dict: a function whose domain is the   *)
(* set of keys present.                                                    *)
(***************************************************************************)
EmptyDict == [k \in {} |-> k]

Has(d, k) == k \in DOMAIN d

Get(d, k, default) == IF Has(d, k) THEN d[k] ELSE default

Put(d, k, v) == (k :> v) @@ d

Del(d, k) == [x \in DOMAIN d \ {k} |-> d[x]]

Turn(role, content) == [role |-> role, content |-> content]

History(d) == Get(d, "story_history", <<>>)

(***************************************************************************)
(* Program constants.                                                      *)
(***************************************************************************)
GENRES == {"fantasy", "scifi", "mystery", "horror", "romance", "adventure"}

STORY_MODES == {"guided", "adventure", "cowrite"}

END == "END"
WAITING_NAME == "WAITING_NAME"
WAITING_TRAITS == "WAITING_TRAITS"
WAITING_BACKGROUND == "WAITING_BACKGROUND"


(***************************************************************************)
(* Inputs of the model: what the user types, what the buttons carry and    *)
(* what the text-generation service answers.                               *)
(***************************************************************************)
\* texts typed as story turns (update.message.text is never empty)
StoryTexts == {<<"a">>, <<"b">>}

\* texts typed as answers of the character-creation steps: one that the
\* step rejects and one that it accepts
NameTexts == {Rep("n", 1), Rep("n", 2)}

TraitsTexts == {Rep("t", 2), Rep("t", 3)}

BackgroundTexts == {Rep("b", 9), Rep("b", 10)}

\* the same, at the lengths on both sides of every bound, bare and padded
\* with whitespace (so that a raw length passes a bound the stripped text
\* does not)
NameBoundaryTexts ==
    {Rep("n", 1), Rep("n", 2), Rep("n", 30), Rep("n", 31),
     Pad(Rep("n", 1)), Pad(Rep("n", 30)), Rep(" ", 2)}

TraitsBoundaryTexts == {Rep("t", 2), Rep("t", 3), Pad(Rep("t", 2)), Pad(Rep("t", 3))}

BackgroundBoundaryTexts == {Rep("b", 9), Rep("b", 10), Pad(Rep("b", 9)), Pad(Rep("b", 10))}

\* callback data of the genre and mode buttons
GenreInputs == {"fantasy"}

ModeInputs == {"adventure"}

\* texts the generation service returns for a story turn
LlmTexts == {<<"r">>}

\* what requests.post / response handling does in call_llm
LlmResponses ==
    {[kind |-> "ok", text |-> r] : r \in LlmTexts}
    \cup {[kind |-> k, text |-> <<>>] : k \in {"timeout", "connection", "format"}}

\* the users whose updates the specifications deliver
Users == {"u1", "u2"}

ActiveUsers == {"u1"}

(***************************************************************************)
(* call_llm: the text, or an Exception carrying a message.                 *)
(***************************************************************************)
call_llm(resp) ==
    CASE resp.kind = "ok" -> [ok |-> TRUE, text |-> resp.text, err |-> "none"]
      [] resp.kind = "timeout" ->
            [ok |-> FALSE, text |-> <<>>, err |-> "Request timed out. Please try again."]
      [] resp.kind = "connection" ->
            [ok |-> FALSE, text |-> <<>>, err |-> "Connection error"]
      [] OTHER ->
            [ok |-> FALSE, text |-> <<>>, err |-> "Unexpected response format from AI."]

\* the turn number taken as the number of all turns
get_story_progress_counts_all(d) == Len(History(d))

\* get_story_progress: the number of user turns in story_history
get_story_progress(d) ==
    Cardinality({i \in 1..Len(History(d)) : History(d)[i].role = "user"})

(***************************************************************************)
(* What a handler run produces: the dictionary it leaves, the state the    *)
(* ConversationHandler moves to ("same" when it does not move), what the   *)
(* generation call did ("none" when none was made), whether the handler    *)
(* ended by an exception, what the user was shown, and the turn number     *)
(* shown (0 when none); then the system prompt given to the generation     *)
(* call and the document sent to the user (empty when there was none).     *)
(***************************************************************************)
Res(d, cv, gen, reply, exc, out, turn) ==
    [d |-> d, conv |-> cv, gen |-> gen, reply |-> reply, exc |-> exc, out |-> out,
     turn |-> turn, prompt |-> <<>>, doc |-> <<>>]

(***************************************************************************)
(* build_system_prompt.  The prompt is a sequence of symbols: every        *)
(* literal of the source is one symbol, the texts of the session are       *)
(* inserted character by character.                                        *)
(***************************************************************************)
\* lines 629-634: no instructions for a mode that is none of the three
mode_instructions(mode) ==
    CASE mode = "guided" ->
            <<"\nYou lead the story. Create engaging narratives that respond to the user's reactions. Keep responses to 2-3 paragraphs.">>
      [] mode = "adventure" ->
            <<"\nPresent the user with meaningful choices. End each response with 2-3 options for what they can do next. Format like: 'What do you do? A) ... B) ... C) ...'">>
      [] mode = "cowrite" ->
            <<"\nYou and the user take turns writing the story. Build on what they write, then pause for their next contribution. Keep responses to 1-2 paragraphs.">>
      [] OTHER -> <<>>

\* lines 637-641: a missing trait or background is replaced by a default
character_info(ud) ==
    IF Has(ud, "character_name")
    THEN LET name == ud.character_name
             traits == Get(ud, "character_traits", <<"mysterious">>)
             background == Get(ud, "character_background", <<"an adventurer">>)
         IN  <<"\n\nThe protagonist is ">> \o name \o <<", who is ">> \o traits
             \o <<". Background: ">> \o background
             \o <<". Keep this character consistent throughout the story.">>
    ELSE <<>>

\* lines 644-646
template_context(ud) ==
    IF Has(ud, "template")
    THEN <<"\n\nStory premise: ">> \o ud.template.premise
    ELSE <<>>

build_system_prompt(ud, genre, mode) ==
    <<"You are a creative storyteller specializing in ", genre, " stories.">>
    \o mode_instructions(mode)
    \o character_info(ud)
    \o template_context(ud)
    \o <<"\n\nBe descriptive, engaging, and immersive. Keep the user engaged!">>

\* lines 488-491 and 574-576: the prompt of a story turn
story_prompt(d) ==
    build_system_prompt(d, Get(d, "genre", "adventure"), Get(d, "mode", "guided"))

(***************************************************************************)
(* generate_story.  F is the set of awaited chat-transport calls of the    *)
(* handler that raise, numbered in source order:                           *)
(*   1 reply_text (loading message)   2 send_action                        *)
(*   3 status_message.delete (try)    4 reply_text (story)                 *)
(*   5 status_message.delete (except) 6 reply_text (error message)         *)
(***************************************************************************)
\* lines 527-528: remove the last turn if it is a user turn
pop_last_user(d) ==
    IF d.story_history # <<>> /\ d.story_history[Len(d.story_history)].role = "user"
    THEN Put(d, "story_history", SubSeq(d.story_history, 1, Len(d.story_history) - 1))
    ELSE d

\* lines 454-457: initialize the story on a first message
init_story(d) ==
    IF ~Has(d, "story_history")
    THEN Put(Put(Put(d, "story_history", <<>>), "genre", "adventure"), "mode", "guided")
    ELSE d

\* lines 460-463: append the user turn
append_user(d, text) ==
    Put(d, "story_history", Append(d.story_history, Turn("user", text)))

\* lines 497-500: append the assistant turn
append_assistant(d, text) ==
    Put(d, "story_history", Append(d.story_history, Turn("assistant", text)))

\* lines 522-550: the except branch, entered with dictionary d
generate_story_except(d, user_message, gen, F) ==
    IF 5 \in F THEN Res(d, "same", gen, <<>>, TRUE, "raised", 0)
    ELSE LET d1 == pop_last_user(d) IN
         IF 6 \in F THEN Res(d1, "same", gen, <<>>, TRUE, "raised", 0)
         ELSE Res(Put(d1, "last_failed_message", user_message), "same", gen, <<>>,
                  FALSE, "generation_failed", 0)

generate_story(ud, user_message, resp, F) ==
    LET d1 == append_user(init_story(ud), user_message)
        turn == get_story_progress(d1)
        system_prompt == story_prompt(d1)
        llm == call_llm(resp)
        d2 == append_assistant(d1, llm.text)
    IN  IF 1 \in F \/ 2 \in F THEN Res(d1, "same", "none", <<>>, TRUE, "raised", turn)
        ELSE IF ~llm.ok
        THEN [generate_story_except(d1, user_message, "fail", F)
                 EXCEPT !.prompt = system_prompt]
        ELSE IF 3 \in F \/ 4 \in F
        THEN [generate_story_except(d2, user_message, "ok", F)
                 EXCEPT !.prompt = system_prompt]
        ELSE [Res(d2, "same", "ok", llm.text, FALSE, "story", turn)
                 EXCEPT !.prompt = system_prompt]

(***************************************************************************)
(* retry_last.  Awaited calls:                                             *)
(*   1 query.answer                  2 edit_message_text (nothing to retry)*)
(*   3 edit_message_text (loading)   4 edit_message_text (story)           *)
(*   5 edit_message_text (still failed)                                    *)
(***************************************************************************)
\* the rollback of a failed retry left out
retry_pop_last_user_skipped(d) == d

\* lines 608-609: remove the last turn if it is a user turn
retry_pop_last_user(d) ==
    IF d.story_history # <<>> /\ d.story_history[Len(d.story_history)].role = "user"
    THEN Put(d, "story_history", SubSeq(d.story_history, 1, Len(d.story_history) - 1))
    ELSE d

\* lines 606-622: the except branch, entered with dictionary d
retry_last_except(d, gen, F) ==
    LET d1 == retry_pop_last_user(d) IN
    IF 5 \in F THEN Res(d1, "same", gen, <<>>, TRUE, "raised", 0)
    ELSE Res(d1, "same", gen, <<>>, FALSE, "generation_failed", 0)

\* line 558: user_data.get('last_failed_message'); None is the empty text
get_last_failed_message(ud) == Get(ud, "last_failed_message", <<>>)

\* the check for a message to retry left out
nothing_to_retry_unchecked(ud) == FALSE

\* line 560: not last_message
nothing_to_retry(ud) == get_last_failed_message(ud) = <<>>

retry_last(ud, resp, F) ==
    IF 1 \in F THEN Res(ud, "same", "none", <<>>, TRUE, "raised", 0)
    ELSE IF nothing_to_retry(ud)
    THEN Res(ud, "same", "none", <<>>, 2 \in F,
             IF 2 \in F THEN "raised" ELSE "nothing_to_retry", 0)
    ELSE IF ~Has(ud, "story_history")
    THEN Res(ud, "same", "none", <<>>, TRUE, "raised", 0)
    ELSE
    LET d1 == append_user(ud, get_last_failed_message(ud))
        system_prompt == story_prompt(d1)
        llm == call_llm(resp)
        d2 == Del(append_assistant(d1, llm.text), "last_failed_message")
        turn == get_story_progress(d2)
    IN  IF 3 \in F THEN Res(d1, "same", "none", <<>>, TRUE, "raised", 0)
        ELSE IF ~llm.ok THEN [retry_last_except(d1, "fail", F) EXCEPT !.prompt = system_prompt]
        ELSE IF 4 \in F THEN [retry_last_except(d2, "ok", F) EXCEPT !.prompt = system_prompt]
        ELSE [Res(d2, "same", "ok", llm.text, FALSE, "story", turn)
                 EXCEPT !.prompt = system_prompt]


(***************************************************************************)
(* parse_templates.  A text is a sequence of symbols; the word TEMPLATE    *)
(* and every literal of the source is one symbol.  The result is a Python  *)
(* dict in insertion order: a sequence of [key, title, premise] entries.   *)
(***************************************************************************)
\* str.split('\n')
RECURSIVE split_lines(_)
split_lines(s) ==
    IF \A i \in 1..Len(s) : s[i] # "\n" THEN <<s>>
    ELSE LET i == CHOOSE j \in 1..Len(s) : s[j] = "\n" /\ \A k \in 1..(j - 1) : s[k] # "\n"
         IN  <<SubSeq(s, 1, i - 1)>> \o split_lines(SubSeq(s, i + 1, Len(s)))

\* line.split(':', 1): one part when there is no colon, else two
split_colon(line) ==
    IF \A i \in 1..Len(line) : line[i] # ":" THEN <<line>>
    ELSE LET i == CHOOSE j \in 1..Len(line) :
                      line[j] = ":" /\ \A k \in 1..(j - 1) : line[k] # ":"
         IN  <<SubSeq(line, 1, i - 1), SubSeq(line, i + 1, Len(line))>>

\* parts[0].replace('TEMPLATE', '')
remove_marker(s) == SelectSeq(s, LAMBDA c : c # "TEMPLATE")

\* " ".join(lines)
RECURSIVE join_space(_)
join_space(ls) ==
    IF ls = <<>> THEN <<>>
    ELSE IF Len(ls) = 1 THEN ls[1]
    ELSE ls[1] \o <<" ">> \o join_space(Tail(ls))

\* templates[key] = {"title": title, "premise": premise}: an existing key
\* keeps its place, a new key goes last
dict_set(ts, key, title, premise) ==
    IF \E i \in 1..Len(ts) : ts[i].key = key
    THEN [i \in 1..Len(ts) |->
            IF ts[i].key = key THEN [key |-> key, title |-> title, premise |-> premise]
            ELSE ts[i]]
    ELSE Append(ts, [key |-> key, title |-> title, premise |-> premise])

dict_has(ts, key) == \E i \in 1..Len(ts) : ts[i].key = key

dict_get(ts, key) == ts[CHOOSE i \in 1..Len(ts) : ts[i].key = key]

\* lines 116-120 and 133-137: store the premise gathered for the current template
flush_premise(st) ==
    IF st.cur # <<>> /\ st.prem # <<>>
    THEN dict_set(st.templates, st.cur, dict_get(st.templates, st.cur).title,
                  strip(join_space(st.prem)))
    ELSE st.templates

\* lines 113-130: one pass of the loop; st.cur is <<>> while current_template is None
parse_line(st, raw) ==
    LET line == strip(raw) IN
    IF line # <<>> /\ Head(line) = "TEMPLATE"
    THEN LET flushed == flush_premise(st)
             parts == split_colon(line)
         IN  IF Len(parts) = 2
             THEN LET key == <<"template_">> \o strip(remove_marker(parts[1]))
                  IN  [templates |-> dict_set(flushed, key, strip(parts[2]), <<>>),
                       cur |-> key, prem |-> <<>>]
             ELSE [st EXCEPT !.templates = flushed]
    ELSE IF line # <<>> /\ st.cur # <<>>
    THEN [st EXCEPT !.prem = Append(@, line)]
    ELSE st

RECURSIVE parse_lines(_, _)
parse_lines(st, lines) ==
    IF lines = <<>> THEN st ELSE parse_lines(parse_line(st, Head(lines)), Tail(lines))

Entry(key, title, premise) == [key |-> key, title |-> title, premise |-> premise]

\* lines 139-143: the fixed set returned when fewer than 3 templates were found
PARSE_FALLBACK ==
    <<Entry(<<"template_", "1">>, <<"The Beginning">>, <<"Your adventure starts here...">>),
      Entry(<<"template_", "2">>, <<"New Horizons">>, <<"A new challenge appears...">>),
      Entry(<<"template_", "3">>, <<"The Journey">>, <<"An epic tale unfolds...">>)>>

\* parse_templates without the flush after the loop (lines 133-137)
parse_templates_without_last_flush(response) ==
    LET st == parse_lines([templates |-> <<>>, cur |-> <<>>, prem |-> <<>>],
                          split_lines(strip(response)))
        templates == st.templates
    IN  IF Len(templates) >= 3 THEN templates ELSE PARSE_FALLBACK

parse_templates(response) ==
    LET st == parse_lines([templates |-> <<>>, cur |-> <<>>, prem |-> <<>>],
                          split_lines(strip(response)))
        templates == flush_premise(st)
    IN  IF Len(templates) >= 3 THEN templates ELSE PARSE_FALLBACK

\* str.title() of a genre key
genre_title(genre) ==
    CASE genre = "fantasy" -> "Fantasy"
      [] genre = "scifi" -> "Scifi"
      [] genre = "mystery" -> "Mystery"
      [] genre = "horror" -> "Horror"
      [] genre = "romance" -> "Romance"
      [] OTHER -> "Adventure"

\* lines 100-104: the set returned when the generation call raises
GENRE_FALLBACK(genre) ==
    <<Entry(<<"template_", "1">>, <<genre_title(genre), " Adventure">>,
            <<"A thrilling journey begins...">>),
      Entry(<<"template_", "2">>, <<"The ", genre_title(genre), " Mystery">>,
            <<"Something strange is happening...">>),
      Entry(<<"template_", "3">>, <<genre_title(genre), " Quest">>,
            <<"An epic quest awaits...">>)>>

generate_story_templates(genre, resp) ==
    LET llm == call_llm(resp) IN
    IF llm.ok THEN parse_templates(llm.text) ELSE GENRE_FALLBACK(genre)


(***************************************************************************)
(* Setup handlers.  Each takes the user's dictionary, the handler's input  *)
(* and the set F of its awaited chat-transport calls that raise (numbered  *)
(* in source order), and gives the handler's result.                       *)
(***************************************************************************)
\* back_to_genres forgetting the genre and the mode chosen
back_to_genres_unsets_choice(ud, F) ==
    IF F \cap {1, 2} # {} THEN Res(ud, "same", "none", <<>>, TRUE, "raised", 0)
    ELSE Res(Del(Del(ud, "genre"), "mode"), "same", "none", <<>>, FALSE, "genre_list", 0)

\* 1 query.answer   2 edit_message_text
back_to_genres(ud, F) ==
    IF F \cap {1, 2} # {} THEN Res(ud, "same", "none", <<>>, TRUE, "raised", 0)
    ELSE Res(ud, "same", "none", <<>>, FALSE, "genre_list", 0)

\* 1 query.answer   2 edit_message_text
genre_selected(ud, genre, F) ==
    IF 1 \in F THEN Res(ud, "same", "none", <<>>, TRUE, "raised", 0)
    ELSE LET d1 == Put(ud, "genre", genre) IN
         IF genre \notin GENRES \/ 2 \in F
         THEN Res(d1, "same", "none", <<>>, TRUE, "raised", 0)
         ELSE Res(d1, "same", "none", <<>>, FALSE, "mode_menu", 0)

\* 1 query.answer   2 edit_message_text; the keyboard reads user_data['genre']
mode_selected(ud, mode, F) ==
    IF 1 \in F THEN Res(ud, "same", "none", <<>>, TRUE, "raised", 0)
    ELSE LET d1 == Put(ud, "mode", mode) IN
         IF ~Has(d1, "genre") \/ mode \notin STORY_MODES \/ 2 \in F
         THEN Res(d1, "same", "none", <<>>, TRUE, "raised", 0)
         ELSE Res(d1, "same", "none", <<>>, FALSE, "begin_menu", 0)

\* the keyboard of the template list without the button that generates again
show_templates_buttons_without_retry(out) ==
    IF out = "templates" THEN {"tmpl_", "start_now", "mode_"}
    ELSE IF out = "template_error" THEN {"start_now", "mode_"}
    ELSE {}

\* lines 262-271 and 287-291: the callback data of the buttons shown with the
\* template list and with the error message
show_templates_buttons(out) ==
    IF out = "templates" THEN {"tmpl_", "use_template", "start_now", "mode_"}
    ELSE IF out = "template_error" THEN {"use_template", "start_now", "mode_"}
    ELSE {}

\* 1 query.answer   2 edit_message_text (loading)   3 edit_message_text (templates)
\* 4 edit_message_text (error message with retry and skip)
show_templates(ud, resp, F) ==
    IF 1 \in F \/ 2 \in F THEN Res(ud, "same", "none", <<>>, TRUE, "raised", 0)
    ELSE LET genre == Get(ud, "genre", "adventure")
             templates == generate_story_templates(genre, resp)
             d1 == Put(ud, "templates", templates)
             gen == IF call_llm(resp).ok THEN "ok" ELSE "fail"
         IN  IF genre \in GENRES /\ 3 \notin F
             THEN Res(d1, "same", gen, <<>>, FALSE, "templates", 0)
             ELSE IF 4 \in F THEN Res(d1, "same", gen, <<>>, TRUE, "raised", 0)
             ELSE Res(d1, "same", gen, <<>>, FALSE, "template_error", 0)

\* 1 query.answer   2 edit_message_text
template_selected(ud, template_key, F) ==
    IF 1 \in F \/ ~Has(ud, "templates") THEN Res(ud, "same", "none", <<>>, TRUE, "raised", 0)
    ELSE IF ~dict_has(ud.templates, template_key)
    THEN Res(ud, "same", "none", <<>>, TRUE, "raised", 0)
    ELSE LET t == dict_get(ud.templates, template_key)
             d1 == Put(Put(ud, "template", [title |-> t.title, premise |-> t.premise]),
                       "story_history", <<>>)
         IN  IF 2 \in F THEN Res(d1, "same", "none", <<>>, TRUE, "raised", 0)
             ELSE Res(d1, "same", "none", <<>>, FALSE, "ready", 0)

\* 1 query.answer   2 edit_message_text
start_character_creation(ud, F) ==
    IF 1 \in F \/ 2 \in F THEN Res(ud, "same", "none", <<>>, TRUE, "raised", 0)
    ELSE Res(ud, WAITING_NAME, "none", <<>>, FALSE, "ask_name", 0)

\* lines 344, 369, 398: the length checks on the stripped text
\* the upper bound off by one
name_ok_off_by_one(name) == ~(Len(name) < 2 \/ Len(name) >= 30)

name_ok(name) == ~(Len(name) < 2 \/ Len(name) > 30)

traits_ok(traits) == ~(Len(traits) < 3)

background_ok(background) == ~(Len(background) < 10)

\* receive_name storing the name before it validates it
receive_name_stores_first(ud, text, F) ==
    LET name == strip(text)
        d1 == Put(ud, "character_name", name)
    IN  IF ~(~(Len(name) < 2 \/ Len(name) > 30))
        THEN IF 1 \in F THEN Res(d1, "same", "none", <<>>, TRUE, "raised", 0)
             ELSE Res(d1, WAITING_NAME, "none", <<>>, FALSE, "rejected", 0)
        ELSE IF 2 \in F THEN Res(d1, "same", "none", <<>>, TRUE, "raised", 0)
        ELSE Res(d1, WAITING_TRAITS, "none", <<>>, FALSE, "accepted", 0)

\* 1 reply_text (error)   2 reply_text (next step)
receive_name(ud, text, F) ==
    LET name == strip(text) IN
    IF ~name_ok(name)
    THEN IF 1 \in F THEN Res(ud, "same", "none", <<>>, TRUE, "raised", 0)
         ELSE Res(ud, WAITING_NAME, "none", <<>>, FALSE, "rejected", 0)
    ELSE LET d1 == Put(ud, "character_name", name) IN
         IF 2 \in F THEN Res(d1, "same", "none", <<>>, TRUE, "raised", 0)
         ELSE Res(d1, WAITING_TRAITS, "none", <<>>, FALSE, "accepted", 0)

\* 1 reply_text (error)   2 reply_text (next step); reads user_data['character_name']
receive_traits(ud, text, F) ==
    LET traits == strip(text) IN
    IF ~traits_ok(traits)
    THEN IF 1 \in F THEN Res(ud, "same", "none", <<>>, TRUE, "raised", 0)
         ELSE Res(ud, WAITING_TRAITS, "none", <<>>, FALSE, "rejected", 0)
    ELSE LET d1 == Put(ud, "character_traits", traits) IN
         IF ~Has(d1, "character_name") \/ 2 \in F
         THEN Res(d1, "same", "none", <<>>, TRUE, "raised", 0)
         ELSE Res(d1, WAITING_BACKGROUND, "none", <<>>, FALSE, "accepted", 0)

\* receive_background storing the text as typed, not stripped
receive_background_unstripped(ud, text, F) ==
    IF ~(~(Len(strip(text)) < 10))
    THEN IF 1 \in F THEN Res(ud, "same", "none", <<>>, TRUE, "raised", 0)
         ELSE Res(ud, WAITING_BACKGROUND, "none", <<>>, FALSE, "rejected", 0)
    ELSE LET d1 == Put(Put(ud, "character_background", text), "story_history", <<>>)
         IN  IF ~Has(d1, "character_name") \/ ~Has(d1, "character_traits") \/ 2 \in F
             THEN Res(d1, "same", "none", <<>>, TRUE, "raised", 0)
             ELSE Res(d1, END, "none", <<>>, FALSE, "accepted", 0)

\* 1 reply_text (error)   2 reply_text (character created); reads
\* user_data['character_name'] and user_data['character_traits']
receive_background(ud, text, F) ==
    LET background == strip(text) IN
    IF ~background_ok(background)
    THEN IF 1 \in F THEN Res(ud, "same", "none", <<>>, TRUE, "raised", 0)
         ELSE Res(ud, WAITING_BACKGROUND, "none", <<>>, FALSE, "rejected", 0)
    ELSE LET d1 == Put(Put(ud, "character_background", background), "story_history", <<>>)
         IN  IF ~Has(d1, "character_name") \/ ~Has(d1, "character_traits") \/ 2 \in F
             THEN Res(d1, "same", "none", <<>>, TRUE, "raised", 0)
             ELSE Res(d1, END, "none", <<>>, FALSE, "accepted", 0)

\* cancel answering without ending the conversation
cancel_without_end(ud, F) ==
    IF 1 \in F THEN Res(ud, "same", "none", <<>>, TRUE, "raised", 0)
    ELSE Res(ud, "same", "none", <<>>, FALSE, "cancelled", 0)

\* 1 reply_text
cancel(ud, F) ==
    IF 1 \in F THEN Res(ud, "same", "none", <<>>, TRUE, "raised", 0)
    ELSE Res(ud, END, "none", <<>>, FALSE, "cancelled", 0)

\* start_now without the new story_history
start_now_keeps_history(ud, F) ==
    IF F \cap {1, 2} # {} THEN Res(ud, "same", "none", <<>>, TRUE, "raised", 0)
    ELSE Res(ud, "same", "none", <<>>, FALSE, "story_started", 0)

\* 1 query.answer   2 edit_message_text
start_now(ud, F) ==
    IF 1 \in F THEN Res(ud, "same", "none", <<>>, TRUE, "raised", 0)
    ELSE LET d1 == Put(ud, "story_history", <<>>) IN
         IF 2 \in F THEN Res(d1, "same", "none", <<>>, TRUE, "raised", 0)
         ELSE Res(d1, "same", "none", <<>>, FALSE, "story_started", 0)

\* confirm_new_story removing the story fields only
confirm_new_story_keeps_character(ud, F) ==
    LET d1 == Del(Del(Del(Del(Del(Del(ud, "story_history"), "last_failed_message"),
                              "template"), "templates"), "genre"), "mode")
    IN  IF 1 \in F THEN Res(ud, "same", "none", <<>>, TRUE, "raised", 0)
        ELSE IF 2 \in F THEN Res(d1, "same", "none", <<>>, TRUE, "raised", 0)
        ELSE Res(d1, "same", "none", <<>>, FALSE, "genre_menu", 0)

\* 1 query.answer   2 edit_message_text
confirm_new_story(ud, F) ==
    IF 1 \in F THEN Res(ud, "same", "none", <<>>, TRUE, "raised", 0)
    ELSE IF 2 \in F THEN Res(EmptyDict, "same", "none", <<>>, TRUE, "raised", 0)
    ELSE Res(EmptyDict, "same", "none", <<>>, FALSE, "genre_menu", 0)

\* new_story going to the reset without asking
new_story_without_confirmation(ud, F) ==
    IF 1 \in F THEN Res(ud, "same", "none", <<>>, TRUE, "raised", 0)
    ELSE confirm_new_story(ud, {i - 2 : i \in F \ {1, 2}})

\* 1 query.answer   2 edit_message_text (confirmation);  without a story it
\* calls confirm_new_story, whose awaits are 3 and 4 here
new_story(ud, F) ==
    IF 1 \in F THEN Res(ud, "same", "none", <<>>, TRUE, "raised", 0)
    ELSE IF Has(ud, "story_history") /\ Len(History(ud)) > 0
    THEN IF 2 \in F THEN Res(ud, "same", "none", <<>>, TRUE, "raised", 0)
         ELSE Res(ud, "same", "none", <<>>, FALSE, "confirm_prompt", 0)
    ELSE confirm_new_story(ud, {i - 2 : i \in F \ {1, 2}})

\* 1 query.answer   2 edit_message_text
cancel_new_story(ud, F) ==
    LET turn_count == get_story_progress(ud) IN
    IF F \cap {1, 2} # {} THEN Res(ud, "same", "none", <<>>, TRUE, "raised", 0)
    ELSE Res(ud, "same", "none", <<>>, FALSE, "preserved", turn_count)

(***************************************************************************)
(* save_story.  The document is a sequence of symbols, like the prompt;    *)
(* a rule of 50 signs is one symbol.                                       *)
(***************************************************************************)
\* GENRES.get(genre, 'Story')
genre_label(genre) ==
    CASE genre = "fantasy" -> "Fantasy"
      [] genre = "scifi" -> "Sci-Fi"
      [] genre = "mystery" -> "Mystery"
      [] genre = "horror" -> "Horror"
      [] genre = "romance" -> "Romance"
      [] genre = "adventure" -> "Adventure"
      [] OTHER -> "Story"

\* STORY_MODES.get(mode, {}).get('name', 'Story')
mode_name(mode) ==
    CASE mode = "guided" -> "Tell Me a Story"
      [] mode = "adventure" -> "Adventure Mode"
      [] mode = "cowrite" -> "Co-Write"
      [] OTHER -> "Story"

\* the decimal digits of a number, as an f-string writes it
RECURSIVE str(_)
str(n) ==
    LET digit(k) == <<"0", "1", "2", "3", "4", "5", "6", "7", "8", "9">>[k + 1]
    IN  IF n < 10 THEN <<digit(n)>> ELSE str(n \div 10) \o <<digit(n % 10)>>

\* len(content.split())
word_count(content) ==
    Cardinality({i \in 1..Len(content) :
                    /\ content[i] \notin Whitespace
                    /\ i = 1 \/ content[i - 1] \in Whitespace})

\* lines 688: the words of all turns
RECURSIVE total_words(_)
total_words(h) == IF h = <<>> THEN 0 ELSE word_count(Head(h).content) + total_words(Tail(h))

\* lines 681-686: the turns from the i-th on
RECURSIVE story_turns(_, _)
story_turns(h, i) ==
    IF i > Len(h) THEN <<>>
    ELSE (IF h[i].role = "user"
          THEN <<"YOU (Turn ">> \o str((i + 1) \div 2) \o <<"):\n">> \o h[i].content
               \o <<"\n\n">>
          ELSE <<"STORY:\n">> \o h[i].content \o <<"\n\n">>)
         \o <<"-x50", "\n\n">> \o story_turns(h, i + 1)

\* lines 665-692
export_document(ud) ==
    LET genre == Get(ud, "genre", "adventure")
        mode == mode_name(Get(ud, "mode", "guided"))
        turn_count == get_story_progress(ud)
    IN  <<"=x50", "\n", "  ", genre_label(genre), " - ", mode, "\n", "  Turns: ">>
        \o str(turn_count) \o <<"\n", "=x50", "\n\n">>
        \o (IF Has(ud, "character_name")
            THEN <<"PROTAGONIST: ">> \o ud.character_name \o <<"\n", "TRAITS: ">>
                 \o Get(ud, "character_traits", <<"N/A">>) \o <<"\n", "BACKGROUND: ">>
                 \o Get(ud, "character_background", <<"N/A">>)
                 \o <<"\n\n", "-x50", "\n\n">>
            ELSE <<>>)
        \o story_turns(ud.story_history, 1)
        \o <<"\n", "=x50", "\n", "Total words: ">> \o str(total_words(ud.story_history))
        \o <<"\n", "Generated by StoryBot\n", "=x50">>

\* save_story keeping the number of exports in the session and writing it
\* in the document
save_story_counting_exports(ud, F) ==
    LET n == Get(ud, "exports", 0) IN
    IF 1 \in F THEN Res(ud, "same", "none", <<>>, TRUE, "raised", 0)
    ELSE IF ~Has(ud, "story_history") \/ Len(History(ud)) = 0
    THEN IF 2 \in F THEN Res(ud, "same", "none", <<>>, TRUE, "raised", 0)
         ELSE Res(ud, "same", "none", <<>>, FALSE, "nothing_to_save", 0)
    ELSE IF F \cap {2, 3} # {} THEN Res(ud, "same", "none", <<>>, TRUE, "raised", 0)
    ELSE [Res(Put(ud, "exports", n + 1), "same", "none", <<>>, 4 \in F,
              IF 4 \in F THEN "raised" ELSE "saved", get_story_progress(ud))
             EXCEPT !.doc = export_document(ud) \o str(n)]

\* 1 query.answer   2 edit_message_text (nothing to save / saving)
\* 3 reply_document   4 reply_text
save_story(ud, F) ==
    IF 1 \in F THEN Res(ud, "same", "none", <<>>, TRUE, "raised", 0)
    ELSE IF ~Has(ud, "story_history") \/ Len(History(ud)) = 0
    THEN IF 2 \in F THEN Res(ud, "same", "none", <<>>, TRUE, "raised", 0)
         ELSE Res(ud, "same", "none", <<>>, FALSE, "nothing_to_save", 0)
    ELSE IF F \cap {2, 3} # {} THEN Res(ud, "same", "none", <<>>, TRUE, "raised", 0)
    ELSE [Res(ud, "same", "none", <<>>, 4 \in F,
              IF 4 \in F THEN "raised" ELSE "saved", get_story_progress(ud))
             EXCEPT !.doc = export_document(ud)]


(***************************************************************************)
(* Inputs of template creation and selection.                              *)
(***************************************************************************)
\* a generated text with three markers, each followed by its premise
WELL_FORMED ==
    <<"TEMPLATE", " ", "1", ":", " ", "A", "\n", "p", " ", "\n", "\n",
      "TEMPLATE", " ", "2", ":", " ", "B", "\n", "q", "\n", "q", "\n",
      "TEMPLATE", " ", "3", ":", " ", "C", "\n", "s", "\n">>

\* a generated text with two markers only
TWO_MARKERS ==
    <<"TEMPLATE", " ", "1", ":", " ", "A", "\n", "p", "\n",
      "TEMPLATE", " ", "2", ":", " ", "B", "\n", "q">>

\* what the generation service answers to template creation
TemplateResponses == {[kind |-> "ok", text |-> WELL_FORMED]}

\* the generation service fails
FailedTemplateResponses ==
    {[kind |-> k, text |-> <<>>] : k \in {"timeout", "connection", "format"}}

AllTemplateResponses ==
    {[kind |-> "ok", text |-> WELL_FORMED], [kind |-> "ok", text |-> TWO_MARKERS],
     [kind |-> "timeout", text |-> <<>>]}

\* The generated texts given to parse_templates are made of blocks.  The first
\* line of a block is a marker 'TEMPLATE n: Title', a TEMPLATE line without a
\* colon, or a plain line; below it come either one blank line or a padded
\* line, an empty line and a second line.
MarkerNumbers == {"1", "2", "3", "4"}

\* every marker with lines below it, two of them also with none, and the two
\* other kinds of first line
BlockKinds ==
    (MarkerNumbers \X {"lines"}) \cup ({"2", "3", "nocolon", "plain"} \X {"blank"})

TitleOf(n) ==
    CASE n = "1" -> "A"
      [] n = "2" -> "B"
      [] n = "3" -> "C"
      [] OTHER -> "D"

HeadLine(h) ==
    CASE h = "nocolon" -> <<"TEMPLATE", " ", "5">>
      [] h = "plain" -> <<"h">>
      [] OTHER -> <<" ", "TEMPLATE", " ", h, ":", " ", TitleOf(h), " ">>

\* the symbol the lines of the i-th block are written with
BodySymbol(i) == <<"p", "q", "r", "s", "t", "v">>[i]

BodyLines(b, i) ==
    IF b = "blank" THEN <<<<" ">>>>
    ELSE <<<<" ", BodySymbol(i), " ">>, <<>>, <<BodySymbol(i), BodySymbol(i)>>>>

RECURSIVE join_lines(_)
join_lines(ls) ==
    IF ls = <<>> THEN <<>>
    ELSE IF Len(ls) = 1 THEN ls[1]
    ELSE ls[1] \o <<"\n">> \o join_lines(Tail(ls))

RECURSIVE block_lines(_, _)
block_lines(f, i) ==
    IF i > Len(f) THEN <<>>
    ELSE <<HeadLine(f[i][1])>> \o BodyLines(f[i][2], i) \o block_lines(f, i + 1)

GeneratedTexts ==
    {join_lines(block_lines(f, 1)) :
        f \in UNION {[1..n -> BlockKinds] : n \in 1..MaxBlocks}}

\* keys carried by the template buttons the user may press
TemplateKeys == {<<"template_", "2">>}

\* the awaited chat-transport calls of a handler, in source order
AwaitSites == 1..6

\* which of them raise in one handler run: a handler leaves its straight-line
\* code at the first call that raises, so at most one call raises outside an
\* except branch and at most one more inside it
FailureSets ==
    {{}} \cup {{i} : i \in AwaitSites}
    \cup {{3, 4}, {3, 5}, {3, 6}, {4, 5}, {4, 6}}

(***************************************************************************)
(* path[u]: the setup steps user u has taken since the empty session the   *)
(* behaviour started from, while they follow genre selection, mode         *)
(* selection and then one of the three ways to begin a story; each step    *)
(* with the button argument or text submitted.  A rejected answer is not   *)
(* a step.  Off when the steps are not recorded, Left once the user has     *)
(* left the setup sequence: the recorded behaviours end there.             *)
(***************************************************************************)
Step(step, arg, text) == [step |-> step, arg |-> arg, text |-> text]

Off == <<Step("off", "", <<>>)>>

Left == <<Step("left", "", <<>>)>>

LastStep(p) == IF p = <<>> THEN "" ELSE p[Len(p)].step

next_path(p, op, arg, text, res) ==
    IF p = Off THEN Off
    ELSE IF p = Left \/ res.exc THEN Left
    ELSE IF res.out = "rejected" THEN p
    ELSE CASE op = "genre_selected" /\ p = <<>> -> <<Step("genre", arg, <<>>)>>
           [] op = "mode_selected" /\ LastStep(p) = "genre" ->
                Append(p, Step("mode", arg, <<>>))
           [] op = "show_templates" /\ LastStep(p) = "mode" /\ res.out = "templates" ->
                Append(p, Step("use_template", "", <<>>))
           [] op = "template_selected" /\ LastStep(p) = "use_template" ->
                Append(p, Step("template", "", <<>>))
           [] op = "start_character_creation" /\ LastStep(p) = "mode" ->
                Append(p, Step("create_character", "", <<>>))
           [] op = "receive_name" /\ LastStep(p) = "create_character" ->
                Append(p, Step("name", "", text))
           [] op = "receive_traits" /\ LastStep(p) = "name" ->
                Append(p, Step("traits", "", text))
           [] op = "receive_background" /\ LastStep(p) = "traits" ->
                Append(p, Step("background", "", text))
           [] op = "start_now" /\ LastStep(p) = "mode" ->
                Append(p, Step("start_now", "", <<>>))
           [] OTHER -> Left

(***************************************************************************)
(* The state machine.                                                      *)
(***************************************************************************)
NoUpdate ==
    [op |-> "none", user |-> "", text |-> <<>>, arg |-> "", key |-> <<>>, gen |-> "none",
     reply |-> <<>>, exc |-> FALSE, out |-> "", turn |-> 0, prompt |-> <<>>, doc |-> <<>>,
     before |-> 0]

\* no handler is running
Idle == [user |-> "", op |-> "none", text |-> <<>>, pc |-> "idle", ud |-> EmptyDict,
         resp |-> [kind |-> "none", text |-> <<>>], events |-> <<>>]

Init ==
    /\ user_data = [u \in Users |-> EmptyDict]
    /\ conv = [u \in Users |-> END]
    /\ last = NoUpdate
    /\ path = [u \in Users |-> Off]
    /\ queue = <<>>
    /\ running = Idle

\* the record of an update handled; before is the length story_history had
\* when the handler was entered
LastOf(u, op, text, arg, key, res) ==
    [op |-> op, user |-> u, text |-> text, arg |-> arg, key |-> key,
     gen |-> res.gen, reply |-> res.reply, exc |-> res.exc, out |-> res.out,
     turn |-> res.turn, prompt |-> res.prompt, doc |-> res.doc,
     before |-> Len(History(user_data[u]))]

\* one dictionary and one conversation state shared by all users
Handled_in_shared_session(u, op, text, arg, key, res) ==
    /\ path[u] # Left
    /\ user_data' = [v \in Users |-> res.d]
    /\ conv' = [v \in Users |-> IF res.conv = "same" THEN conv[u] ELSE res.conv]
    /\ last' = LastOf(u, op, text, arg, key, res)
    /\ path' = [path EXCEPT ![u] = next_path(@, op, arg, text, res)]
    /\ UNCHANGED <<queue, running>>

\* the handler's result folded into the state: context.user_data is the
\* dictionary of the update's user, and the conversation state is kept per
\* (chat, user)
Handled(u, op, text, arg, key, res) ==
    /\ path[u] # Left
    /\ user_data' = [user_data EXCEPT ![u] = res.d]
    /\ conv' = [conv EXCEPT ![u] = IF res.conv = "same" THEN @ ELSE res.conv]
    /\ last' = LastOf(u, op, text, arg, key, res)
    /\ path' = [path EXCEPT ![u] = next_path(@, op, arg, text, res)]
    /\ UNCHANGED <<queue, running>>

\* room for one more exchange in story_history
Room(u) == Len(History(user_data[u])) + 2 <= MaxHist



GenreSelected(u, F) ==
    \E g \in GenreInputs : Handled(u, "genre_selected", <<>>, g, <<>>, genre_selected(user_data[u], g, F))

BackToGenres(u, F) ==
    Handled(u, "back_to_genres", <<>>, "", <<>>, back_to_genres(user_data[u], F))

ModeSelected(u, F) ==
    \E m \in ModeInputs : Handled(u, "mode_selected", <<>>, m, <<>>, mode_selected(user_data[u], m, F))

ShowTemplates(u, F, responses) ==
    \E resp \in responses :
        Handled(u, "show_templates", resp.text, "", <<>>,
                show_templates(user_data[u], resp, F))

TemplateSelected(u, F) ==
    \E k \in TemplateKeys :
        Handled(u, "template_selected", <<>>, "", k, template_selected(user_data[u], k, F))

\* the entry point of the conversation is tried only while no conversation runs
StartCharacterCreation(u, F) ==
    /\ conv[u] = END
    /\ Handled(u, "start_character_creation", <<>>, "", <<>>,
               start_character_creation(user_data[u], F))

ReceiveName(u, F, texts) ==
    /\ conv[u] = WAITING_NAME
    /\ \E t \in texts : Handled(u, "receive_name", t, "", <<>>, receive_name(user_data[u], t, F))

ReceiveTraits(u, F, texts) ==
    /\ conv[u] = WAITING_TRAITS
    /\ \E t \in texts :
          Handled(u, "receive_traits", t, "", <<>>, receive_traits(user_data[u], t, F))

ReceiveBackground(u, F, texts) ==
    /\ conv[u] = WAITING_BACKGROUND
    /\ \E t \in texts :
          Handled(u, "receive_background", t, "", <<>>, receive_background(user_data[u], t, F))

\* /cancel is a fallback of the conversation only
Cancel(u, F) ==
    /\ conv[u] # END
    /\ Handled(u, "cancel", <<>>, "", <<>>, cancel(user_data[u], F))

StartNow(u, F) == Handled(u, "start_now", <<>>, "", <<>>, start_now(user_data[u], F))

\* text messages given to generate_story whatever the conversation's state
GenerateStory_in_any_state(u, F) ==
    /\ Room(u)
    /\ \E t \in StoryTexts, resp \in LlmResponses :
          Handled(u, "generate_story", t, "", <<>>, generate_story(user_data[u], t, resp, F))

\* a text message reaches generate_story only while no conversation runs
GenerateStory(u, F) ==
    /\ conv[u] = END
    /\ Room(u)
    /\ \E t \in StoryTexts, resp \in LlmResponses :
          Handled(u, "generate_story", t, "", <<>>, generate_story(user_data[u], t, resp, F))

RetryLast(u, F) ==
    /\ Room(u)
    /\ \E resp \in LlmResponses :
          Handled(u, "retry_last", <<>>, "", <<>>, retry_last(user_data[u], resp, F))

SaveStory(u, F) == Handled(u, "save_story", <<>>, "", <<>>, save_story(user_data[u], F))

NewStory(u, F) == Handled(u, "new_story", <<>>, "", <<>>, new_story(user_data[u], F))

ConfirmNewStory(u, F) ==
    Handled(u, "confirm_new_story", <<>>, "", <<>>, confirm_new_story(user_data[u], F))

CancelNewStory(u, F) ==
    Handled(u, "cancel_new_story", <<>>, "", <<>>, cancel_new_story(user_data[u], F))



\* the process is started again: user_data is kept by PicklePersistence, the
\* states of the conversation handler are not
Restart ==
    /\ conv' = [u \in Users |-> END]
    /\ last' = [NoUpdate EXCEPT !.op = "restart"]
    /\ UNCHANGED <<user_data, path, queue, running>>

\* one update of user u is handled; NT, TT and BT are the texts the user may
\* type at the three character-creation steps
Update(u, F, NT, TT, BT, TR) ==
       GenreSelected(u, F)
    \/ BackToGenres(u, F)
    \/ ModeSelected(u, F)
    \/ ShowTemplates(u, F, TR)
    \/ TemplateSelected(u, F)
    \/ StartCharacterCreation(u, F)
    \/ ReceiveName(u, F, NT)
    \/ ReceiveTraits(u, F, TT)
    \/ ReceiveBackground(u, F, BT)
    \/ Cancel(u, F)
    \/ StartNow(u, F)
    \/ GenerateStory(u, F)
    \/ RetryLast(u, F)
    \/ SaveStory(u, F)
    \/ NewStory(u, F)
    \/ ConfirmNewStory(u, F)
    \/ CancelNewStory(u, F)

\* every chat-transport call succeeds
Next ==
    \/ \E u \in ActiveUsers :
          Update(u, {}, NameTexts, TraitsTexts, BackgroundTexts, TemplateResponses)
    \/ Restart

Spec == Init /\ [][Next]_vars

\* story turns over a chat transport whose awaited calls may raise: the story
\* handlers and the buttons shown during a story, from an empty session
NextT ==
    \E u \in ActiveUsers, F \in FailureSets :
        \/ StartNow(u, F)
        \/ GenerateStory(u, F)
        \/ RetryLast(u, F)
        \/ SaveStory(u, F)
        \/ NewStory(u, F)
        \/ ConfirmNewStory(u, F)
        \/ CancelNewStory(u, F)

SpecT == Init /\ [][NextT]_vars

\* every chat-transport call succeeds and every generation call of template
\* creation fails
NextDown ==
    \/ \E u \in ActiveUsers :
          Update(u, {}, NameTexts, TraitsTexts, BackgroundTexts, FailedTemplateResponses)
    \/ Restart

SpecDown == Init /\ [][NextDown]_vars

\* the setup sequences from an empty session, with the boundary texts: every
\* update is handled until the steps taken leave the setup sequences
InitSetup ==
    /\ user_data = [u \in Users |-> EmptyDict]
    /\ conv = [u \in Users |-> END]
    /\ last = NoUpdate
    /\ path = [u \in Users |-> IF u \in ActiveUsers THEN <<>> ELSE Off]
    /\ queue = <<>>
    /\ running = Idle

NextSetup ==
    \E u \in ActiveUsers :
        Update(u, {}, NameBoundaryTexts, TraitsBoundaryTexts, BackgroundBoundaryTexts,
               AllTemplateResponses)

SpecSetup == InitSetup /\ [][NextSetup]_vars

\* template creation and selection on the generated texts: the text the
\* generation service will return is drawn at the start
InitParse ==
    /\ user_data = [u \in Users |-> EmptyDict]
    /\ conv = [u \in Users |-> END]
    /\ path = [u \in Users |-> Off]
    /\ queue = <<>>
    /\ running = Idle
    /\ \E t \in GeneratedTexts : last = [NoUpdate EXCEPT !.op = "generated", !.text = t]

TemplatesCreated(u) ==
    /\ last.op = "generated"
    /\ ShowTemplates(u, {}, {[kind |-> "ok", text |-> last.text]})

NextParse ==
    \E u \in ActiveUsers :
        \/ TemplatesCreated(u)
        \/ TemplateSelected(u, {})

SpecParse == InitParse /\ [][NextParse]_vars

(***************************************************************************)
(* The event loop.  run_polling fetches the updates into the update queue  *)
(* and the application takes them from it one at a time: it awaits the     *)
(* handler of one update before it takes the next one (the application is  *)
(* built without concurrent_updates).  A handler that makes a generation   *)
(* call is followed through three places: the awaits of its acknowledgment *)
(* ("ack"), requests.post ("call") and the awaits of its answer ("reply"). *)
(* requests.post is a blocking call made on the thread of the event loop:  *)
(* nothing else runs until it returns.                                     *)
(***************************************************************************)
\* the updates the users send: a text message and, for the users that press
\* buttons, the Retry button and the button that creates templates
LoopUpdates(u) ==
    {[op |-> "generate_story", text |-> <<"a">>]}
    \cup IF u \in ActiveUsers
         THEN {[op |-> "retry_last", text |-> <<>>], [op |-> "show_templates", text |-> <<>>]}
         ELSE {}

\* what the generation service answers
LoopResponses(op) ==
    IF op = "show_templates"
    THEN {[kind |-> "ok", text |-> WELL_FORMED], [kind |-> "timeout", text |-> <<>>]}
    ELSE {r \in LlmResponses : r.kind \in {"ok", "timeout"}}

\* the handlers that make a generation call, run from beginning to end
handler_run(op, ud, text, resp, F) ==
    CASE op = "generate_story" -> generate_story(ud, text, resp, F)
      [] op = "retry_last" -> retry_last(ud, resp, F)
      [] OTHER -> show_templates(ud, resp, F)

\* whether the handler gets to its generation call: retry_last returns
\* before it when there is nothing to retry
makes_call(op, ud) ==
    op = "retry_last" => (~nothing_to_retry(ud) /\ Has(ud, "story_history"))

\* the dictionary when the acknowledgment is sent: the user turn is appended
before_call(op, ud, text) ==
    CASE op = "generate_story" -> append_user(init_story(ud), text)
      [] op = "retry_last" -> append_user(ud, get_last_failed_message(ud))
      [] OTHER -> ud

\* the dictionary when the handler gets to the awaits after the call:
\* generate_story removes the user turn of a failed call after an await
after_call(op, ud, text, resp) ==
    IF op = "generate_story"
    THEN IF call_llm(resp).ok
         THEN append_assistant(before_call(op, ud, text), call_llm(resp).text)
         ELSE before_call(op, ud, text)
    ELSE handler_run(op, ud, text, resp, {}).d

\* the acknowledgment: lines 478, 571 and 248
ack_message(op) ==
    CASE op = "generate_story" -> "Crafting your story..."
      [] op = "retry_last" -> "Retrying story generation..."
      [] OTHER -> "Crafting unique story templates..."

\* a handler that goes to its generation call at once
first_pc_is_the_call(op) == "call"

\* where a handler that makes a generation call stops first
first_pc(op) == "ack"

\* updates handled concurrently: the next one is taken at any await
loop_is_free_at_awaits(r) == r.pc # "call"

\* the application takes the next update when no handler is running
loop_is_free(r) == r.pc = "idle"

\* the polling task runs whenever the thread of the event loop is not held
\* by requests.post
polling_runs(r) == r.pc # "call"

Fetch(u) ==
    /\ polling_runs(running)
    /\ Len(queue) < MaxQueue
    /\ \E upd \in LoopUpdates(u) :
          queue' = Append(queue, [user |-> u, op |-> upd.op, text |-> upd.text])
    /\ UNCHANGED <<user_data, conv, last, path, running>>

StartHandler ==
    /\ loop_is_free(running)
    /\ queue # <<>>
    /\ LET upd == Head(queue)
           u == upd.user
           ud == user_data[u]
           r == [user |-> u, op |-> upd.op, text |-> upd.text, pc |-> "reply", ud |-> ud,
                 resp |-> Idle.resp, events |-> <<>>]
       IN  /\ upd.op = "show_templates" \/ Room(u)
           /\ queue' = Tail(queue)
           /\ IF makes_call(upd.op, ud)
              THEN /\ user_data' = [user_data EXCEPT ![u] = before_call(upd.op, ud, upd.text)]
                   /\ running' = [r EXCEPT !.pc = first_pc(upd.op)]
              ELSE /\ running' = r
                   /\ UNCHANGED user_data
    /\ UNCHANGED <<conv, last, path>>

\* the handler has ended
Ended(u, op, text, res) ==
    /\ user_data' = [user_data EXCEPT ![u] = res.d]
    /\ last' = LastOf(u, op, text, "", <<>>, res)
    /\ running' = Idle
    /\ UNCHANGED <<conv, path, queue>>

\* the acknowledgment is sent
Acknowledge ==
    /\ running.pc = "ack"
    /\ running' = [running EXCEPT !.pc = "call",
                                  !.events = Append(@, ack_message(running.op))]
    /\ UNCHANGED <<user_data, conv, last, path, queue>>

\* requests.post returns or raises
CallReturns ==
    /\ running.pc = "call"
    /\ \E resp \in LoopResponses(running.op) :
          /\ running' = [running EXCEPT !.pc = "reply", !.resp = resp,
                                        !.events = Append(@, "call_llm")]
          /\ user_data' = [user_data EXCEPT ![running.user] =
                              after_call(running.op, running.ud, running.text, resp)]
    /\ UNCHANGED <<conv, last, path, queue>>

\* the awaits after the call return and the handler ends
Finish ==
    /\ running.pc = "reply"
    /\ Ended(running.user, running.op, running.text,
             handler_run(running.op, running.ud, running.text, running.resp, {}))

NextLoop ==
    \/ \E u \in Users : Fetch(u)
    \/ StartHandler
    \/ Acknowledge
    \/ CallReturns
    \/ Finish

SpecLoop == Init /\ [][NextLoop]_vars


(***************************************************************************)
(* Properties.  A step of the handler op for user u is a step to a state   *)
(* whose last.op is op and last.user is u; the unprimed variables are the  *)
(* state the handler started in.                                           *)
(***************************************************************************)
Pending(d) == Has(d, "last_failed_message")

EndsWithAssistant(h) == h = <<>> \/ h[Len(h)].role = "assistant"

\* C1: when the generation call of generate_story fails, story_history has
\* the length it had before the handler ran and last_failed_message is the
\* submitted text.
C1_FailedTurnRolledBack ==
    [][\A u \in Users :
          (last'.op = "generate_story" /\ last'.user = u /\ last'.gen = "fail")
          => /\ Len(History(user_data'[u])) = Len(History(user_data[u]))
             /\ Pending(user_data'[u])
             /\ user_data'[u].last_failed_message = last'.text]_vars

C1_Witness ==
    \E u \in Users :
        /\ last.op = "generate_story" /\ last.user = u /\ last.gen = "fail"
        /\ Len(History(user_data[u])) = 2
        /\ Pending(user_data[u]) /\ user_data[u].last_failed_message = last.text

\* C2: when the generation call of generate_story succeeds, story_history
\* grows by the user turn and the assistant turn, and last_failed_message is
\* unset afterwards whatever it was before.
C2_SuccessClearsPending ==
    [][\A u \in Users :
          (last'.op = "generate_story" /\ last'.user = u /\ last'.gen = "ok")
          => /\ History(user_data'[u])
                  = History(user_data[u])
                      \o <<Turn("user", last'.text), Turn("assistant", last'.reply)>>
             /\ ~Pending(user_data'[u])]_vars

\* C3: retry_last with no last_failed_message changes no session field,
\* makes no generation call and answers that there is nothing to retry.
C3_RetryWithoutPending ==
    [][\A u \in Users :
          (last'.op = "retry_last" /\ last'.user = u /\ ~Pending(user_data[u]))
          => /\ user_data' = user_data
             /\ conv' = conv
             /\ last'.gen = "none"
             /\ ~last'.exc => last'.out = "nothing_to_retry"]_vars

C3_Witness ==
    \E u \in Users :
        /\ last.op = "retry_last" /\ last.user = u /\ last.out = "nothing_to_retry"
        /\ ~Pending(user_data[u])
        /\ Len(History(user_data[u])) = 2

\* C4: retry_last with last_failed_message = t: when the generation call
\* fails, story_history has its length of before the retry and
\* last_failed_message is still t; when it succeeds, story_history grows by
\* the user turn t and the assistant turn and last_failed_message is unset.
C4_RetryOutcome ==
    [][\A u \in Users :
          (last'.op = "retry_last" /\ last'.user = u /\ Pending(user_data[u]))
          => /\ ~last'.exc => last'.gen \in {"ok", "fail"}
             /\ last'.gen = "fail" =>
                  /\ Len(History(user_data'[u])) = Len(History(user_data[u]))
                  /\ Pending(user_data'[u])
                  /\ user_data'[u].last_failed_message = user_data[u].last_failed_message
             /\ last'.gen = "ok" =>
                  /\ Len(History(user_data'[u])) = Len(History(user_data[u])) + 2
                  /\ SubSeq(History(user_data'[u]), 1, Len(History(user_data[u])))
                       = History(user_data[u])
                  /\ History(user_data'[u])[Len(History(user_data[u])) + 1]
                       = Turn("user", user_data[u].last_failed_message)
                  /\ History(user_data'[u])[Len(History(user_data[u])) + 2].role
                       = "assistant"
                  /\ ~Pending(user_data'[u])]_vars

C4_Witness ==
    \E u \in Users :
        /\ last.op = "retry_last" /\ last.user = u /\ last.gen = "fail"
        /\ Pending(user_data[u])
        /\ Len(History(user_data[u])) = 2

\* C5: in every reachable state story_history alternates roles, starting
\* with a user turn.
C5_HistoryAlternates ==
    \A u \in Users :
        \A i \in 1..Len(History(user_data[u])) :
            History(user_data[u])[i].role = IF i % 2 = 1 THEN "user" ELSE "assistant"

C5_Witness ==
    \E u \in Users :
        /\ Len(History(user_data[u])) = 4
        /\ last.op = "retry_last" /\ last.user = u /\ last.gen = "ok"

\* C6: whenever a handler that made a generation call has ended, normally
\* or by an exception, story_history is empty or ends with an assistant turn.
C6_NoDanglingUserTurn ==
    \A u \in Users :
        (last.op \in {"generate_story", "retry_last"} /\ last.user = u /\ last.gen # "none")
        => EndsWithAssistant(History(user_data[u]))


C6_Witness ==
    \E u \in Users :
        /\ last.op = "generate_story" /\ last.user = u /\ last.gen = "fail" /\ last.exc
        /\ ~EndsWithAssistant(History(user_data[u]))

\* the text between the first and the last character that is not whitespace
Stripped(t) ==
    LET idx == {i \in 1..Len(t) : t[i] \notin Whitespace} IN
    IF idx = {} THEN <<>>
    ELSE SubSeq(t, CHOOSE i \in idx : \A j \in idx : i <= j,
                   CHOOSE i \in idx : \A j \in idx : i >= j)

Terminal(p) == LastStep(p) \in {"template", "background", "start_now"}

\* C7: from an empty session, genre selection, mode selection and then a
\* template pick, a completed character creation or start-immediately end
\* with story_history = [], the genre and mode selected, a template exactly
\* on the template path and a character exactly on the character path.
C7_SetupReachesStoryActive ==
    \A u \in Users :
        LET p == path[u]
            d == user_data[u]
        IN  (p # Off /\ Terminal(p)) =>
              /\ Has(d, "story_history") /\ d.story_history = <<>>
              /\ Has(d, "genre") /\ d.genre = p[1].arg
              /\ Has(d, "mode") /\ d.mode = p[2].arg
              /\ Has(d, "template") <=> LastStep(p) = "template"
              /\ Has(d, "template") =>
                    \E i \in 1..Len(d.templates) :
                        /\ d.templates[i].title = d.template.title
                        /\ d.templates[i].premise = d.template.premise
              /\ Has(d, "character_name") <=> LastStep(p) = "background"
              /\ Has(d, "character_traits") <=> LastStep(p) = "background"
              /\ Has(d, "character_background") <=> LastStep(p) = "background"

C7_Witness ==
    \E u \in Users :
        /\ path[u] # Off /\ LastStep(path[u]) = "template"
        /\ Has(user_data[u], "template")
        /\ user_data[u].story_history = <<>>

\* C8: a name is accepted iff its stripped length is in 2..30, traits iff
\* their stripped length is at least 3, a background iff its stripped length
\* is at least 10; an accepted answer moves the sub-flow to the next step.
C8_ValidationBounds ==
    \A u \in Users :
        last.user = u =>
          /\ last.op = "receive_name" =>
                /\ conv[u] \in {WAITING_NAME, WAITING_TRAITS}
                /\ conv[u] = WAITING_TRAITS
                     <=> (2 <= Len(Stripped(last.text)) /\ Len(Stripped(last.text)) <= 30)
          /\ last.op = "receive_traits" =>
                /\ conv[u] \in {WAITING_TRAITS, WAITING_BACKGROUND}
                /\ conv[u] = WAITING_BACKGROUND <=> Len(Stripped(last.text)) >= 3
          /\ last.op = "receive_background" =>
                /\ conv[u] \in {WAITING_BACKGROUND, END}
                /\ conv[u] = END <=> Len(Stripped(last.text)) >= 10

C8_Witness ==
    \E u \in Users :
        /\ last.op = "receive_name" /\ last.user = u
        /\ Len(last.text) > 30 /\ Len(Stripped(last.text)) = 30
        /\ conv[u] = WAITING_TRAITS

\* C9: when a character-creation step rejects its input, the sub-flow stays
\* in the same step and no session field changes.
C9_RejectionChangesNothing ==
    [][\A u \in Users :
          \/ /\ last'.op = "receive_name" /\ last'.user = u
             /\ ~(2 <= Len(Stripped(last'.text)) /\ Len(Stripped(last'.text)) <= 30)
          \/ /\ last'.op = "receive_traits" /\ last'.user = u
             /\ Len(Stripped(last'.text)) < 3
          \/ /\ last'.op = "receive_background" /\ last'.user = u
             /\ Len(Stripped(last'.text)) < 10
          => user_data' = user_data /\ conv' = conv]_vars

C9_Witness ==
    \E u \in Users :
        /\ last.op = "receive_name" /\ last.user = u
        /\ Len(Stripped(last.text)) < 2
        /\ conv[u] = WAITING_NAME
        /\ Len(History(user_data[u])) = 2
        /\ ~Has(user_data[u], "character_name")

\* C10: after a valid name, valid traits and a valid background were
\* submitted in that order, the character is exactly the three stripped
\* texts, story_history = [] and the sub-flow has ended.
C10_CharacterCreated ==
    \A u \in Users :
        LET p == path[u]
            d == user_data[u]
            n == Len(p)
        IN  (p # Off /\ LastStep(p) = "background") =>
              /\ Has(d, "character_name") /\ d.character_name = Stripped(p[n - 2].text)
              /\ Has(d, "character_traits") /\ d.character_traits = Stripped(p[n - 1].text)
              /\ Has(d, "character_background")
              /\ d.character_background = Stripped(p[n].text)
              /\ Has(d, "story_history") /\ d.story_history = <<>>
              /\ conv[u] = END

C10_Witness ==
    \E u \in Users :
        /\ path[u] # Off /\ LastStep(path[u]) = "background"
        /\ Len(path[u][Len(path[u])].text) > Len(user_data[u].character_background)
        /\ Len(path[u][Len(path[u]) - 2].text) > Len(user_data[u].character_name)
        /\ conv[u] = END

CharacterComplete(d) ==
    /\ Has(d, "character_name") /\ Has(d, "character_traits")
    /\ Has(d, "character_background")
    /\ 2 <= Len(d.character_name) /\ Len(d.character_name) <= 30
    /\ Len(d.character_traits) >= 3
    /\ Len(d.character_background) >= 10

\* C11: in every reachable state a session that has a character name has
\* the traits and the background as well, all three within their bounds.
C11_CharacterNeverPartial ==
    \A u \in Users :
        Has(user_data[u], "character_name") => CharacterComplete(user_data[u])

\* a story turn is generated, after a cancel, for a character that has a
\* name only
C11_Witness ==
    \E u \in Users :
        /\ last.op = "generate_story" /\ last.user = u /\ last.gen = "ok"
        /\ conv[u] = END
        /\ Has(user_data[u], "character_name")
        /\ ~Has(user_data[u], "character_traits")
        /\ ~Has(user_data[u], "character_background")

SessionFields ==
    {"genre", "mode", "character_name", "character_traits", "character_background",
     "template", "templates", "story_history", "last_failed_message"}

\* C12: with a non-empty story_history, new_story and cancel_new_story
\* change no session field, and only confirm_new_story empties the session.
C12_OnlyConfirmationClears ==
    [][\A u \in Users :
          (last'.user = u /\ Len(History(user_data[u])) > 0)
          => /\ last'.op \in {"new_story", "cancel_new_story"}
                  => user_data' = user_data /\ conv' = conv
             /\ (\A k \in SessionFields : ~Has(user_data'[u], k))
                  => last'.op = "confirm_new_story"]_vars

C12_Witness ==
    \E u \in Users :
        /\ last.op = "new_story" /\ last.user = u /\ last.out = "confirm_prompt"
        /\ Len(History(user_data[u])) = 2
        /\ Has(user_data[u], "character_background")
        /\ Has(user_data[u], "last_failed_message")

\* C13: confirm_new_story unsets genre, mode, the character, the template,
\* the generated templates, story_history and last_failed_message in one
\* step; a step of it never unsets some of them only.
C13_ResetIsTotal ==
    [][\A u \in Users :
          (last'.op = "confirm_new_story" /\ last'.user = u)
          => /\ ~last'.exc => \A k \in SessionFields : ~Has(user_data'[u], k)
             /\ \/ \A k \in SessionFields : ~Has(user_data'[u], k)
                \/ user_data'[u] = user_data[u]]_vars

C13_Witness ==
    \E u \in Users :
        /\ last.op = "confirm_new_story" /\ last.user = u /\ ~last.exc
        /\ user_data[u] = EmptyDict

\* C14: after confirm_new_story the character-creation sub-flow has ended,
\* whatever step it was at.
C14_ResetEndsCharacterCreation ==
    [][\A u \in Users :
          (last'.op = "confirm_new_story" /\ last'.user = u /\ ~last'.exc)
          => conv'[u] = END]_vars

\* the reset was confirmed and the next text is still awaited as a name
C14_Witness ==
    \E u \in Users :
        /\ last.op = "confirm_new_story" /\ last.user = u /\ ~last.exc
        /\ user_data[u] = EmptyDict
        /\ conv[u] = WAITING_NAME

UserTurns(h) == Len(SelectSeq(h, LAMBDA t : t.role = "user"))

\* C15: the turn number shown with a story, by generate_story and by a
\* successful retry_last, is the number of user turns in story_history with
\* the user turn of that call appended, 1 for the first turn of a story; no
\* counter is stored in the session.
C15_TurnOrdinalDerived ==
    [][\A u \in Users :
          (last'.op \in {"generate_story", "retry_last"} /\ last'.user = u
             /\ last'.out = "story")
          => /\ last'.turn = UserTurns(History(user_data[u])) + 1
             /\ last'.turn = UserTurns(History(user_data'[u]))
             /\ History(user_data[u]) = <<>> => last'.turn = 1
             /\ DOMAIN user_data'[u] \subseteq SessionFields]_vars

C15_Witness ==
    \E u \in Users :
        /\ last.op = "retry_last" /\ last.user = u /\ last.out = "story"
        /\ last.turn = 2
        /\ Len(History(user_data[u])) = 4

\* the stripped lines of a text
TextLines(t) == [i \in 1..Len(split_lines(t)) |-> Stripped(split_lines(t)[i])]

IsTemplateLine(l) == l # <<>> /\ l[1] = "TEMPLATE"

\* a line of the form TEMPLATE n: Title
IsMarker(l) == IsTemplateLine(l) /\ \E i \in 1..Len(l) : l[i] = ":"

FirstColon(l) == CHOOSE i \in 1..Len(l) : l[i] = ":" /\ \A j \in 1..(i - 1) : l[j] # ":"

MarkerNumber(l) == Stripped(SubSeq(l, 2, FirstColon(l) - 1))

MarkerTitle(l) == Stripped(SubSeq(l, FirstColon(l) + 1, Len(l)))

\* the non-empty lines below line i, up to the next TEMPLATE line or the end
BodyOf(ls, i) ==
    LET after == {j \in (i + 1)..Len(ls) : IsTemplateLine(ls[j])}
        stop == IF after = {} THEN Len(ls) + 1
                ELSE CHOOSE j \in after : \A k \in after : j <= k
    IN  SelectSeq(SubSeq(ls, i + 1, stop - 1), LAMBDA l : l # <<>>)

\* exactly three TEMPLATE lines, all of them markers with distinct numbers
\* and each followed by a non-empty line
WellFormedText(t) ==
    LET ls == TextLines(t)
        ms == {i \in 1..Len(ls) : IsTemplateLine(ls[i])}
    IN  /\ Cardinality(ms) = 3
        /\ \A i \in ms : IsMarker(ls[i]) /\ BodyOf(ls, i) # <<>>
        /\ \A i, j \in ms : i # j => MarkerNumber(ls[i]) # MarkerNumber(ls[j])

\* fewer than three markers, or a marker with no non-empty line below it
MalformedText(t) ==
    LET ls == TextLines(t)
        ms == {i \in 1..Len(ls) : IsMarker(ls[i])}
    IN  \/ Cardinality(ms) < 3
        \/ \E i \in ms : BodyOf(ls, i) = <<>>

\* C16: on a text with exactly three markers 'TEMPLATE n: Title' with
\* distinct n, each followed by a non-empty line, parse_templates returns
\* exactly three seeds, in the order of the markers, whose titles are the
\* marker titles and whose premises are the stripped non-empty lines below
\* the marker joined by single spaces.
C16_WellFormedParse ==
    \A u \in Users :
        (last.op = "show_templates" /\ last.user = u /\ WellFormedText(last.text))
        => LET ls == TextLines(last.text)
               ms == {i \in 1..Len(ls) : IsTemplateLine(ls[i])}
               ts == user_data[u].templates
           IN  /\ Len(ts) = 3
               /\ \A i \in ms :
                     LET k == Cardinality({j \in ms : j <= i}) IN
                     /\ ts[k].key = <<"template_">> \o MarkerNumber(ls[i])
                     /\ ts[k].title = MarkerTitle(ls[i])
                     /\ ts[k].premise = join_space(BodyOf(ls, i))

\* three markers in another order than 1, 2, 3, below a plain first line
C16_Witness ==
    \E u \in Users :
        /\ last.op = "show_templates" /\ last.user = u /\ WellFormedText(last.text)
        /\ ~IsTemplateLine(TextLines(last.text)[1])
        /\ Len(user_data[u].templates) = 3
        /\ user_data[u].templates[1].key = <<"template_", "4">>
        /\ user_data[u].templates[1].premise # <<>>

\* C17: on a malformed text, with fewer than three markers or with a marker
\* that has an empty body, the template set is the fixed fallback and no
\* seed has an empty premise.
C17_MalformedGivesFallback ==
    \A u \in Users :
        (last.op = "show_templates" /\ last.user = u /\ MalformedText(last.text))
        => /\ user_data[u].templates = PARSE_FALLBACK
           /\ \A k \in 1..Len(user_data[u].templates) :
                 user_data[u].templates[k].premise # <<>>

\* three markers, one of them with an empty body, and a seed with an empty
\* premise is stored
C17_Witness ==
    \E u \in Users :
        /\ last.op = "show_templates" /\ last.user = u /\ MalformedText(last.text)
        /\ Cardinality({i \in 1..Len(TextLines(last.text)) :
                           IsTemplateLine(TextLines(last.text)[i])}) = 3
        /\ Len(user_data[u].templates) = 3
        /\ \E k \in 1..3 : user_data[u].templates[k].premise = <<>>

\* C18: whatever the generated text, the template set stored in the
\* session has exactly three seeds.
C18_ExactlyThreeSeeds ==
    \A u \in Users :
        (last.op = "show_templates" /\ last.user = u)
        => Len(user_data[u].templates) = 3

C18_Witness ==
    \E u \in Users :
        /\ last.op = "show_templates" /\ last.user = u
        /\ Len(user_data[u].templates) = 4

\* C19: a template selection that finds no generated template set, or
\* names a key that is not in the set, changes no session field and ends
\* with a message to the user, not with an unhandled error.
C19_StaleTemplateSelection ==
    [][\A u \in Users :
          (/\ last'.op = "template_selected" /\ last'.user = u
           /\ \/ ~Has(user_data[u], "templates")
              \/ ~dict_has(user_data[u].templates, last'.key))
          => /\ user_data' = user_data
             /\ ~last'.exc
             /\ last'.out # "raised"]_vars

\* the selected key is not among the keys of the generated set
C19_Witness ==
    \E u \in Users :
        /\ last.op = "template_selected" /\ last.user = u /\ last.exc
        /\ Has(user_data[u], "templates")
        /\ ~dict_has(user_data[u].templates, last.key)

\* C20: when the generation call of show_templates fails, the handler ends
\* without an exception, the user is shown the buttons that generate again
\* and that start without a template, and genre, mode, story_history, the
\* character and the template are unchanged.
C20_TemplateFailureHandled ==
    [][\A u \in Users :
          (last'.op = "show_templates" /\ last'.user = u /\ last'.gen = "fail")
          => /\ ~last'.exc
             /\ {"use_template", "start_now"} \subseteq show_templates_buttons(last'.out)
             /\ conv' = conv
             /\ \A k \in SessionFields \ {"templates"} :
                   /\ Has(user_data'[u], k) <=> Has(user_data[u], k)
                   /\ Has(user_data[u], k) => user_data'[u][k] = user_data[u][k]]_vars

C20_Witness ==
    \E u \in Users :
        /\ last.op = "show_templates" /\ last.user = u /\ last.gen = "fail"
        /\ Len(History(user_data[u])) = 2
        /\ Has(user_data[u], "character_background")
        /\ Has(user_data[u], "template")
        /\ Has(user_data[u], "templates")

\* C21: while the generation call of one user is outstanding, an update of
\* another user can still be fetched, and an update of another user that
\* waits in the queue can be taken and handled.
C21_OtherUsersServed ==
    \A u, v \in Users :
        (u # v /\ running.user = u /\ running.pc = "call")
        => /\ Len(queue) < MaxQueue => ENABLED Fetch(v)
           /\ (queue # <<>> /\ Head(queue).user = v /\ Room(v)) => ENABLED StartHandler

\* the call of one user is outstanding while a message of the other one waits
C21_Witness ==
    /\ running.pc = "call" /\ running.user = "u1" /\ running.op = "generate_story"
    /\ queue # <<>> /\ Head(queue).user = "u2" /\ Room("u2")
    /\ ~ENABLED StartHandler

\* C22: the updates are taken from the queue in the order they arrived, a
\* handler that has started runs to its end, through its awaits and its
\* generation call, before the next update is taken, and a user's session
\* is changed only by the handler that is running for that user.
C22_OneHandlerAtATime ==
    [][/\ Len(queue') > Len(queue) =>
             /\ Len(queue') = Len(queue) + 1
             /\ SubSeq(queue', 1, Len(queue)) = queue
       /\ Len(queue') < Len(queue) =>
             /\ running.pc = "idle" /\ running'.pc # "idle"
             /\ queue' = Tail(queue)
             /\ running'.user = Head(queue).user /\ running'.op = Head(queue).op
             /\ running'.text = Head(queue).text
             /\ running'.ud = user_data[Head(queue).user]
       /\ (running.pc # "idle" /\ running'.pc # "idle") =>
             /\ running'.user = running.user /\ running'.op = running.op
             /\ running'.text = running.text /\ running'.ud = running.ud
             /\ Len(queue') >= Len(queue)
       /\ (running.pc = "idle" /\ running'.pc # "idle") => Len(queue') < Len(queue)
       /\ \A u \in Users :
             user_data'[u] # user_data[u] =>
                \/ running.pc # "idle" /\ running.user = u
                \/ running.pc = "idle" /\ running'.user = u]_vars

\* a handler of u1 is past its generation call while a later update of u1 waits
C22_Witness ==
    /\ running.user = "u1" /\ running.pc = "reply" /\ running.op = "generate_story"
    /\ running.resp.kind = "ok"
    /\ queue # <<>> /\ Head(queue).user = "u1" /\ Head(queue).op = "retry_last"
    /\ Len(History(user_data["u1"])) = 4

\* C23: whenever a handler is inside its generation call or has made it,
\* the acknowledgment of that handler (the loading message of a story turn,
\* of a retry, of template creation) was sent by it earlier.
C23_AcknowledgedBeforeCall ==
    /\ running.pc = "call" =>
          /\ running.events # <<>>
          /\ running.events[Len(running.events)] = ack_message(running.op)
    /\ \A i \in 1..Len(running.events) :
          running.events[i] = "call_llm" =>
             \E j \in 1..(i - 1) : running.events[j] = ack_message(running.op)
    /\ (running.pc = "reply" /\ running.resp.kind # "none") =>
          \E i \in 1..Len(running.events) : running.events[i] = "call_llm"

\* template creation has made its call, which timed out
C23_Witness ==
    /\ running.op = "show_templates" /\ running.pc = "reply"
    /\ running.resp.kind = "timeout"
    /\ running.events = <<ack_message("show_templates"), "call_llm">>

FailureKinds == {"timeout", "connection", "format"}

\* C24: when the generation call of a story handler fails, by a timeout, a
\* connection error or an unexpected response, the handler ends without an
\* exception, with story_history as long as before the handler ran and the
\* text held for a retry; the three kinds of failure give the same result.
C24_FailureKindsRolledBack ==
    [][\A u \in Users :
          (last'.op \in {"generate_story", "retry_last"} /\ last'.user = u
             /\ last'.gen = "fail")
          => /\ ~last'.exc
             /\ last'.out = "generation_failed"
             /\ Len(History(user_data'[u])) = Len(History(user_data[u]))
             /\ Pending(user_data'[u])
             /\ \A F \in FailureSets, k \in FailureKinds :
                   /\ generate_story(user_data[u], last'.text, [kind |-> k, text |-> <<>>], F)
                        = generate_story(user_data[u], last'.text,
                                         [kind |-> "timeout", text |-> <<>>], F)
                   /\ Pending(user_data[u]) =>
                         retry_last(user_data[u], [kind |-> k, text |-> <<>>], F)
                           = retry_last(user_data[u], [kind |-> "timeout", text |-> <<>>], F)]_vars

\* the call of the second turn failed and the handler ended by an exception
\* with the user turn still in story_history and nothing held for a retry
C24_Witness ==
    \E u \in Users :
        /\ last.op = "generate_story" /\ last.user = u /\ last.gen = "fail" /\ last.exc
        /\ Len(History(user_data[u])) = 3
        /\ History(user_data[u])[3] = Turn("user", last.text)
        /\ ~Pending(user_data[u])

\* a character is set: the session holds its name, traits and background
CharacterSet(d) ==
    Has(d, "character_name") /\ Has(d, "character_traits") /\ Has(d, "character_background")

PromptOpening(d) ==
    <<"You are a creative storyteller specializing in ", Get(d, "genre", "adventure"),
      " stories.">>

CharacterDirective(d) ==
    <<"\n\nThe protagonist is ">> \o d.character_name \o <<", who is ">>
    \o d.character_traits \o <<". Background: ">> \o d.character_background
    \o <<". Keep this character consistent throughout the story.">>

PremisePart(d) == <<"\n\nStory premise: ">> \o d.template.premise

PromptClosing == <<"\n\nBe descriptive, engaging, and immersive. Keep the user engaged!">>

\* C25: the system prompt given to a generation call of a story is, in this
\* order, the opening sentence with the genre, the instructions of the
\* session's mode (one of the three), the character directive with the
\* session's name, traits and background exactly when a character is set,
\* the premise of the template exactly when a template is set, and the
\* closing directive; composing it changes none of the fields it reads.
C25_PromptComposition ==
    [][\A u \in Users :
          (last'.op \in {"generate_story", "retry_last"} /\ last'.user = u
             /\ last'.gen # "none")
          => LET d == user_data'[u] IN
             /\ Get(d, "mode", "guided") \in STORY_MODES
             /\ mode_instructions(Get(d, "mode", "guided")) # <<>>
             /\ last'.prompt =
                   PromptOpening(d)
                   \o mode_instructions(Get(d, "mode", "guided"))
                   \o (IF CharacterSet(d) THEN CharacterDirective(d) ELSE <<>>)
                   \o (IF Has(d, "template") THEN PremisePart(d) ELSE <<>>)
                   \o PromptClosing
             /\ \A k \in {"character_name", "character_traits", "character_background",
                          "template", "templates"} :
                   /\ Has(d, k) <=> Has(user_data[u], k)
                   /\ Has(d, k) => d[k] = user_data[u][k]
             /\ \A k \in {"genre", "mode"} :
                   (Has(user_data[u], "story_history") /\ Has(user_data[u], k))
                   => Has(d, k) /\ d[k] = user_data[u][k]]_vars

\* the prompt of a story turn names a protagonist with traits and a
\* background that the session does not hold
C25_Witness ==
    \E u \in Users :
        /\ last.op = "generate_story" /\ last.user = u /\ last.gen = "ok"
        /\ Has(user_data[u], "character_name")
        /\ ~Has(user_data[u], "character_traits")
        /\ \E i \in 1..Len(last.prompt) : last.prompt[i] = "mysterious"
        /\ \E i \in 1..Len(last.prompt) : last.prompt[i] = "an adventurer"

\* C26: save_story changes no session field and does not move the
\* character-creation sub-flow; the document it sends is the one the
\* session determines, and two exports of the same user with no update
\* handled between them send the same document.
C26_ExportIsPure ==
    [][\A u \in Users :
          (last'.op = "save_story" /\ last'.user = u)
          => /\ user_data' = user_data
             /\ conv' = conv
             /\ DOMAIN user_data'[u] \subseteq SessionFields
             /\ last'.out = "saved" <=> Len(History(user_data[u])) > 0
             /\ last'.out = "saved" => last'.doc # <<>>
             /\ (last.op = "save_story" /\ last.user = u /\ last.out = "saved")
                   => last'.doc = last.doc]_vars

\* a story of two exchanges with a complete character was exported
C26_Witness ==
    \E u \in Users :
        /\ last.op = "save_story" /\ last.user = u /\ last.out = "saved"
        /\ Len(History(user_data[u])) = 4
        /\ Has(user_data[u], "character_background")
        /\ \E i \in 1..Len(last.doc) : last.doc[i] = "PROTAGONIST: "
        /\ last.doc[9] = "2"
        /\ last.doc[Len(last.doc) - 3] = "4"

\* C27: a cancel at the name, traits or background step ends the
\* character-creation sub-flow without an exception and leaves genre, mode,
\* story_history, the template and last_failed_message as they were.
C27_CancelEndsSubflow ==
    [][\A u \in Users :
          (last'.op = "cancel" /\ last'.user = u)
          => /\ conv[u] \in {WAITING_NAME, WAITING_TRAITS, WAITING_BACKGROUND}
             /\ conv'[u] = END
             /\ ~last'.exc
             /\ \A k \in {"genre", "mode", "story_history", "template",
                          "last_failed_message"} :
                   /\ Has(user_data'[u], k) <=> Has(user_data[u], k)
                   /\ Has(user_data[u], k) => user_data'[u][k] = user_data[u][k]]_vars

\* cancelled at the background step, in a story with a failed message held
C27_Witness ==
    \E u \in Users :
        /\ last.op = "cancel" /\ last.user = u /\ conv[u] = END
        /\ Has(user_data[u], "character_traits")
        /\ ~Has(user_data[u], "character_background")
        /\ Len(History(user_data[u])) = 2
        /\ Pending(user_data[u])
        /\ Has(user_data[u], "template")

\* C28: back_to_genres changes no session field: genre, mode, the
\* character, the template, story_history and last_failed_message keep
\* their values, and the user is shown the genre list.
C28_BackKeepsSession ==
    [][\A u \in Users :
          (last'.op = "back_to_genres" /\ last'.user = u)
          => /\ \A k \in SessionFields :
                   /\ Has(user_data'[u], k) <=> Has(user_data[u], k)
                   /\ Has(user_data[u], k) => user_data'[u][k] = user_data[u][k]
             /\ DOMAIN user_data'[u] = DOMAIN user_data[u]
             /\ conv' = conv
             /\ ~last'.exc /\ last'.out = "genre_list"]_vars

\* back to the genre list in a session that has every field
C28_Witness ==
    \E u \in Users :
        /\ last.op = "back_to_genres" /\ last.user = u /\ last.out = "genre_list"
        /\ \A k \in SessionFields : Has(user_data[u], k)
        /\ Len(History(user_data[u])) = 2
        /\ user_data[u].genre = "fantasy" /\ user_data[u].mode = "adventure"

(***************************************************************************)
(* Two users.  Both users send updates, handled one at a time in any       *)
(* order: character creation with an accepted answer at each step and its  *)
(* cancellation, the immediate start, story turns whose generation call    *)
(* succeeds or times out, and the confirmed reset.                         *)
(***************************************************************************)
PairStory(u) ==
    /\ conv[u] = END
    /\ Room(u)
    /\ \E resp \in LoopResponses("generate_story") :
          Handled(u, "generate_story", <<"a">>, "", <<>>,
                  generate_story(user_data[u], <<"a">>, resp, {}))

NextPair ==
    \E u \in Users :
        \/ StartCharacterCreation(u, {})
        \/ ReceiveName(u, {}, {Rep("n", 2)})
        \/ ReceiveTraits(u, {}, {Rep("t", 3)})
        \/ ReceiveBackground(u, {}, {Rep("b", 10)})
        \/ Cancel(u, {})
        \/ StartNow(u, {})
        \/ PairStory(u)
        \/ ConfirmNewStory(u, {})

SpecPair == Init /\ [][NextPair]_vars

\* C29: an update handled for one user leaves every other user's session
\* dictionary and character-creation state as they were, whatever the
\* handler (reset, rollback of a failed generation and character creation
\* included).
C29_SessionsIndependent ==
    [][\A a, b \in Users :
          (a # b /\ last'.user = a)
          => /\ user_data'[b] = user_data[b]
             /\ conv'[b] = conv[b]]_vars

\* a failed generation rolled back for one user while the other user is in
\* the middle of character creation and has a story of their own
C29_Witness ==
    /\ last.user = "u1" /\ last.op = "generate_story" /\ last.out = "generation_failed"
    /\ Pending(user_data["u1"]) /\ Len(History(user_data["u1"])) = 2
    /\ conv["u2"] = WAITING_TRAITS
    /\ Has(user_data["u2"], "character_name")
    /\ Len(History(user_data["u2"])) = 2
    /\ ~Pending(user_data["u2"])

\* C30: a story_history that is not empty gets shorter only by the confirmed
\* reset or by the removal of the last user turn after a failed generation;
\* no other update (the immediate start, the choice of a template, the end
\* of character creation, the choice of a genre or a mode) shortens it.
C30_HistoryKeptWithoutConfirmation ==
    [][\A u \in Users :
          (/\ last'.user = u
           /\ Len(History(user_data[u])) > 0
           /\ Len(History(user_data'[u])) < Len(History(user_data[u])))
          => \/ last'.op = "confirm_new_story"
             \/ /\ last'.op \in {"generate_story", "retry_last"}
                /\ last'.gen = "fail"
                /\ History(user_data'[u])
                     = SubSeq(History(user_data[u]), 1, Len(History(user_data[u])) - 1)]_vars

\* a story of two exchanges emptied by the immediate start
C30_Witness ==
    \E u \in Users :
        /\ last.user = u /\ last.op = "start_now" /\ ~last.exc
        /\ last.before = 4
        /\ Has(user_data[u], "story_history") /\ Len(History(user_data[u])) = 0

\* the handlers that begin a story with an empty story_history
StoryStarters == {"start_now", "template_selected", "receive_background"}

\* C31: a retry re-submits only the user's most recent text message: when the
\* update handled just before the retry was a text message whose story part
\* was generated and delivered, or the start of a new story, the retry
\* appends no user turn; when it was a text message at all, a user turn the
\* retry appends has that message's text.
C31_RetryResubmitsMostRecent ==
    [][\A u \in Users :
          (/\ last'.op = "retry_last" /\ last'.user = u /\ last.user = u
           /\ last'.gen # "none")
          => /\ ~(last.op = "generate_story" /\ last.gen = "ok" /\ ~last.exc)
             /\ ~(last.op \in StoryStarters /\ ~last.exc
                  /\ Has(user_data[u], "story_history") /\ History(user_data[u]) = <<>>)
             /\ last.op = "generate_story"
                  => get_last_failed_message(user_data[u]) = last.text]_vars

\* a retry has appended the text "a" after the exchange of the later text "b"
C31_Witness ==
    \E u \in Users :
        /\ last.op = "retry_last" /\ last.user = u /\ last.gen = "ok" /\ last.before = 2
        /\ Len(History(user_data[u])) = 4
        /\ History(user_data[u])[1] = Turn("user", <<"b">>)
        /\ History(user_data[u])[3] = Turn("user", <<"a">>)
        /\ ~Pending(user_data[u])

\* C32: after generate_story has handled a text message, last_failed_message
\* holds that text only if the user turn was taken out of story_history
\* again: the pair of the user turn with this text and its assistant turn is
\* never in story_history together with last_failed_message holding the
\* same text, whatever exception the handler caught.
C32_PendingOnlyAfterRollback ==
    [][\A u \in Users :
          (last'.op = "generate_story" /\ last'.user = u)
          => LET h == History(user_data'[u])
                 n == Len(h)
             IN  ~(/\ Pending(user_data'[u])
                   /\ user_data'[u].last_failed_message = last'.text
                   /\ n = last'.before + 2
                   /\ h[n - 1] = Turn("user", last'.text)
                   /\ h[n].role = "assistant")]_vars

\* the story part was generated and appended, its delivery raised, and the
\* handler stored the text for a retry without an exception of its own
C32_Witness ==
    \E u \in Users :
        /\ last.op = "generate_story" /\ last.user = u
        /\ last.gen = "ok" /\ last.out = "generation_failed" /\ ~last.exc
        /\ last.before = 0
        /\ Len(History(user_data[u])) = 2
        /\ History(user_data[u])[1] = Turn("user", last.text)
        /\ History(user_data[u])[2].role = "assistant"
        /\ Pending(user_data[u]) /\ user_data[u].last_failed_message = last.text

\* the session without its character, and without its template
WithoutCharacter(d) ==
    Del(Del(Del(d, "character_name"), "character_traits"), "character_background")

WithoutTemplate(d) == Del(d, "template")

\* C33: a story begun by the immediate start or by the choice of a template
\* while the session holds the character of an earlier story, of which turns
\* were played, gets prompts and an export without that character; a story
\* begun by the immediate start while the session holds the template of an
\* earlier story gets prompts without that premise.
C33_NewStoryWithoutOldChoices ==
    [][\A u \in Users :
          (/\ last'.user = u /\ ~last'.exc
           /\ Len(History(user_data[u])) > 0
           /\ Has(user_data'[u], "story_history") /\ History(user_data'[u]) = <<>>)
          => /\ (last'.op \in {"start_now", "template_selected"}
                 /\ Has(user_data[u], "character_name"))
                => /\ story_prompt(user_data'[u])
                        = story_prompt(WithoutCharacter(user_data'[u]))
                   /\ export_document(user_data'[u])
                        = export_document(WithoutCharacter(user_data'[u]))
             /\ (last'.op = "start_now" /\ Has(user_data[u], "template"))
                => story_prompt(user_data'[u])
                     = story_prompt(WithoutTemplate(user_data'[u]))]_vars

\* the immediate start after a story of one exchange, in a session that
\* still holds the whole character and the template of earlier stories
C33_Witness ==
    \E u \in Users :
        /\ last.op = "start_now" /\ last.user = u /\ ~last.exc /\ last.before = 2
        /\ History(user_data[u]) = <<>>
        /\ Has(user_data[u], "character_name") /\ Has(user_data[u], "character_traits")
        /\ Has(user_data[u], "character_background") /\ Has(user_data[u], "template")
        /\ character_info(user_data[u]) # <<>> /\ template_context(user_data[u]) # <<>>

\* the handler that stores the field on the user's selection
SelectionOf(k) == IF k = "genre" THEN "genre_selected" ELSE "mode_selected"

\* C34: a genre, or a mode, that the session holds changes or disappears
\* only by another selection of it or by the full reset (confirmed, or run
\* by new_story when there is no story to lose); a text message handled
\* while story_history is absent leaves a genre and a mode already held as
\* they are.
C34_ChoiceKeptUntilSelectedAgain ==
    [][\A u \in Users : \A k \in {"genre", "mode"} :
          (/\ last'.user = u
           /\ Has(user_data[u], k)
           /\ ~(Has(user_data'[u], k) /\ user_data'[u][k] = user_data[u][k]))
          => \/ last'.op \in {SelectionOf(k), "confirm_new_story"}
             \/ last'.op = "new_story" /\ user_data'[u] = EmptyDict]_vars

\* the first text message of a session in which the templates of the chosen
\* genre were shown: the story runs with the defaults
C34_Witness ==
    \E u \in Users :
        /\ last.op = "generate_story" /\ last.user = u /\ last.gen = "ok" /\ ~last.exc
        /\ last.before = 0 /\ Len(History(user_data[u])) = 2
        /\ Has(user_data[u], "templates") /\ ~Has(user_data[u], "template")
        /\ user_data[u].genre = "adventure" /\ user_data[u].mode = "guided"
        /\ \E i \in 1..Len(last.prompt) : last.prompt[i] = "adventure"

\* the handlers of text messages, and the one of each conversation state
TextHandlers == {"receive_name", "receive_traits", "receive_background", "generate_story"}

StepOf(state) ==
    CASE state = WAITING_NAME -> "receive_name"
      [] state = WAITING_TRAITS -> "receive_traits"
      [] state = WAITING_BACKGROUND -> "receive_background"
      [] OTHER -> "generate_story"

\* C35: a text message goes to the handler of the character-creation state
\* the user is in: while a name, traits or a background is awaited it is
\* handled by that step, appends nothing to story_history and causes no
\* generation call, also when a story is in progress; while no conversation
\* runs it is handled by generate_story, which appends it as a user turn and
\* calls the generation service with it.
C35_TextRoutedByStage ==
    [][\A u \in Users :
          (last'.user = u /\ last'.op \in TextHandlers)
          => /\ last'.op = StepOf(conv[u])
             /\ conv[u] # END
                => /\ Len(History(user_data'[u])) <= Len(History(user_data[u]))
                   /\ \A i \in 1..Len(History(user_data'[u])) :
                         History(user_data'[u])[i] = History(user_data[u])[i]
                   /\ last'.gen = "none" /\ last'.prompt = <<>>
             /\ conv[u] = END
                => /\ last'.gen # "none" /\ last'.prompt # <<>>
                   /\ conv'[u] = END
                   /\ last'.gen = "ok"
                      => /\ Len(History(user_data'[u])) = last'.before + 2
                         /\ History(user_data'[u])[last'.before + 1]
                              = Turn("user", last'.text)]_vars

\* a name given during a story of one exchange: stored as the name, the
\* story as it was
C35_Witness ==
    \E u \in Users :
        /\ last.op = "receive_name" /\ last.user = u /\ last.out # "rejected"
        /\ conv[u] = WAITING_TRAITS
        /\ last.before = 2 /\ Len(History(user_data[u])) = 2
        /\ user_data[u].character_name = last.text
        /\ last.gen = "none"

\* C36: a session holds a mode only if it holds a genre: every update leaves
\* the session so, and a mode selection handled while the genre is unset
\* stores no mode and does not end by an exception.
C36_ModeOnlyWithGenre ==
    [][\A u \in Users :
          /\ Has(user_data'[u], "mode") => Has(user_data'[u], "genre")
          /\ (last'.op = "mode_selected" /\ last'.user = u /\ ~Has(user_data[u], "genre"))
             => ~Has(user_data'[u], "mode") /\ ~last'.exc]_vars

\* a mode button pressed in a session without a genre: the mode is stored
\* and the handler ended by an exception
C36_Witness ==
    \E u \in Users :
        /\ last.op = "mode_selected" /\ last.user = u /\ last.exc
        /\ Has(user_data[u], "mode") /\ user_data[u].mode = last.arg
        /\ ~Has(user_data[u], "genre")

====
